---- MODULE Spec2Model ----
(***************************************************************************)
(* The classroom chatbot of app.py: the /chat dispatcher, its in-memory    *)
(* session record `state`, the fixed quiz bank and the three SQLite tables *)
(* (students, attendance, feedback).                                       *)
(*                                                                         *)
(* Text is modelled as a sequence of one-character strings, so that        *)
(* str.strip, str.lower, str.split, str.startswith and the `in` substring  *)
(* test are computed character by character as Python computes them.      *)
(* Question texts are only ever compared for equality and stay strings.    *)
(***************************************************************************)
EXTENDS Integers, Sequences, FiniteSets, TLC

(***************************************************************************)
(* Bounds of the exploration.                                              *)
(***************************************************************************)
\* number of /chat requests handled in one behaviour
MaxSteps == 4
\* calendar days the clock may reach (datetime.now() read by a request)
MaxDay == 2
\* rows the feedback table may hold
MaxFeedback == 1
\* questions already asked and answered in the initial states of SpecLate
AskedAtStart == 8

(***************************************************************************)
(* Python string primitives.                                               *)
(***************************************************************************)
UpperCase == <<"A","B","C","D","E","F","G","H","I","J","K","L","M",
               "N","O","P","Q","R","S","T","U","V","W","X","Y","Z">>
LowerCase == <<"a","b","c","d","e","f","g","h","i","j","k","l","m",
               "n","o","p","q","r","s","t","u","v","w","x","y","z">>

\* the lowercase letter of every uppercase letter
ToLower ==
    [c \in {UpperCase[i] : i \in 1..Len(UpperCase)} |->
        LowerCase[CHOOSE i \in 1..Len(UpperCase) : UpperCase[i] = c]]

LowerChar(c) == IF c \in DOMAIN ToLower THEN ToLower[c] ELSE c

\* str.lower()
Lower(s) == [i \in 1..Len(s) |-> LowerChar(s[i])]

IsSpace(c) == c \in {" ", "\t", "\n", "\r"}

RECURSIVE LStrip(_)
LStrip(s) == IF s # <<>> /\ IsSpace(Head(s)) THEN LStrip(Tail(s)) ELSE s

RECURSIVE RStrip(_)
RStrip(s) ==
    IF s # <<>> /\ IsSpace(s[Len(s)]) THEN RStrip(SubSeq(s, 1, Len(s) - 1)) ELSE s

\* str.strip()
Strip(s) == RStrip(LStrip(s))

\* str.split(","): the pieces between commas, empty pieces included
RECURSIVE Split(_)
Split(s) ==
    IF \E i \in 1..Len(s) : s[i] = ","
    THEN LET i == CHOOSE k \in 1..Len(s) :
                      s[k] = "," /\ \A j \in 1..(k - 1) : s[j] # ","
         IN  <<SubSeq(s, 1, i - 1)>> \o Split(SubSeq(s, i + 1, Len(s)))
    ELSE <<s>>

\* the answer test written as equality instead of containment
Contains_AsEquality(sub, s) == sub = s

\* `sub in s` on strings
Contains(sub, s) ==
    \E i \in 0..(Len(s) - Len(sub)) : SubSeq(s, i + 1, i + Len(sub)) = sub

\* str.startswith(p)
StartsWith(s, p) == Len(s) >= Len(p) /\ SubSeq(s, 1, Len(p)) = p

\* `x in list`
InSeq(x, s) == \E i \in 1..Len(s) : s[i] = x

\* [n.strip() for n in text.split(",") if n.strip()]
RECURSIVE StripNonEmpty(_)
StripNonEmpty(parts) ==
    IF parts = <<>> THEN <<>>
    ELSE IF Strip(Head(parts)) # <<>>
         THEN <<Strip(Head(parts))>> \o StripNonEmpty(Tail(parts))
         ELSE StripNonEmpty(Tail(parts))

SplitNames(text) == StripNonEmpty(Split(text))

(***************************************************************************)
(* The quiz bank, state["quiz_questions"]: (question, answer) pairs.       *)
(***************************************************************************)
quiz_questions == <<
    <<"What is the powerhouse of the cell?", <<"M", "i", "t", "o", "c", "h", "o", "n", "d", "r", "i", "a">>>>,
    <<"What is 2 + 2 * 2?", <<"6">>>>,
    <<"Who wrote 'To Kill a Mockingbird'?", <<"H", "a", "r", "p", "e", "r", " ", "L", "e", "e">>>>,
    <<"What is the capital of France?", <<"P", "a", "r", "i", "s">>>>,
    <<"How many days are in a year?", <<"3", "6", "5">>>>,
    <<"What is the largest planet in our solar system?", <<"J", "u", "p", "i", "t", "e", "r">>>>,
    <<"Who wrote Romeo and Juliet?", <<"W", "i", "l", "l", "i", "a", "m", " ", "S", "h", "a", "k", "e", "s", "p", "e", "a", "r", "e">>>>,
    <<"What is H2O?", <<"W", "a", "t", "e", "r">>>>,
    <<"What color is the sky?", <<"B", "l", "u", "e">>>>
    >>

\* Python's None and a value that is not None
None == <<>>
Some(x) == <<x>>

(***************************************************************************)
(* The phrases of the literal command table.                               *)
(***************************************************************************)
YesPhrases == {
    <<"y", "e", "s">>,
    <<"y">> }

NoPhrases == {
    <<"n", "o">>,
    <<"n">> }

AttendancePhrases == {
    <<"m", "a", "r", "k", " ", "m", "y", " ", "a", "t", "t", "e", "n", "d", "a", "n", "c", "e">>,
    <<"m", "a", "r", "k", " ", "a", "t", "t", "e", "n", "d", "a", "n", "c", "e">>,
    <<"t", "a", "k", "e", " ", "a", "t", "t", "e", "n", "d", "a", "n", "c", "e">> }

QuizStartPhrases == {
    <<"s", "t", "a", "r", "t", " ", "q", "u", "i", "z">>,
    <<"q", "u", "i", "z">>,
    <<"a", "s", "k", " ", "q", "u", "e", "s", "t", "i", "o", "n">>,
    <<"s", "t", "a", "r", "t", " ", "a", " ", "q", "u", "i", "z">> }

QuizResetPhrases == {
    <<"r", "e", "s", "e", "t", " ", "q", "u", "i", "z">>,
    <<"r", "e", "s", "t", "a", "r", "t", " ", "q", "u", "i", "z">> }

StatsPhrases == {
    <<"s", "h", "o", "w", " ", "a", "t", "t", "e", "n", "d", "a", "n", "c", "e", " ", "s", "t", "a", "t", "s">>,
    <<"a", "t", "t", "e", "n", "d", "a", "n", "c", "e", " ", "s", "t", "a", "t", "s">>,
    <<"s", "t", "a", "t", "s">> }

FeedbackPhrases == {
    <<"g", "i", "v", "e", " ", "f", "e", "e", "d", "b", "a", "c", "k">>,
    <<"f", "e", "e", "d", "b", "a", "c", "k">> }

RandomStudentPhrases == {
    <<"r", "a", "n", "d", "o", "m", " ", "s", "t", "u", "d", "e", "n", "t">>,
    <<"p", "i", "c", "k", " ", "a", " ", "s", "t", "u", "d", "e", "n", "t">>,
    <<"c", "h", "o", "o", "s", "e", " ", "a", " ", "s", "t", "u", "d", "e", "n", "t">> }

HelpPhrases == {
    <<"h", "e", "l", "p">>,
    <<"c", "o", "m", "m", "a", "n", "d", "s">> }

AddStudentsPrefix ==
    <<"a", "d", "d", " ", "s", "t", "u", "d", "e", "n", "t", "s">>

(***************************************************************************)
(* The request bodies the model sends to /chat.                            *)
(***************************************************************************)
\* "start quiz"
msgStartQuiz ==
    <<"s", "t", "a", "r", "t", " ", "q", "u", "i", "z">>

\* "reset quiz"
msgResetQuiz ==
    <<"r", "e", "s", "e", "t", " ", "q", "u", "i", "z">>

\* "yes"
msgYes ==
    <<"y", "e", "s">>

\* " Yes "
msgYesPadded ==
    <<" ", "Y", "e", "s", " ">>

\* "no"
msgNo ==
    <<"n", "o">>

\* "maybe"
msgMaybe ==
    <<"m", "a", "y", "b", "e">>

\* "it is water indeed"
msgWater ==
    <<"i", "t", " ", "i", "s", " ", "w", "a", "t", "e", "r", " ", "i", "n", "d", "e", "e", "d">>

\* "mark attendance"
msgMarkAttendance ==
    <<"m", "a", "r", "k", " ", "a", "t", "t", "e", "n", "d", "a", "n", "c", "e">>

\* "alice,, BOB "
msgPresentList ==
    <<"a", "l", "i", "c", "e", ",", ",", " ", "B", "O", "B", " ">>

\* "add students Alice, Bob"
msgAddAliceBob ==
    <<"a", "d", "d", " ", "s", "t", "u", "d", "e", "n", "t", "s", " ", "A", "l", "i", "c", "e", ",", " ", "B", "o", "b">>

\* "add students bob,Cara"
msgAddBobCara ==
    <<"a", "d", "d", " ", "s", "t", "u", "d", "e", "n", "t", "s", " ", "b", "o", "b", ",", "C", "a", "r", "a">>

\* "stats"
msgStats ==
    <<"s", "t", "a", "t", "s">>

\* "give feedback"
msgGiveFeedback ==
    <<"g", "i", "v", "e", " ", "f", "e", "e", "d", "b", "a", "c", "k">>

\* "random student"
msgRandomStudent ==
    <<"r", "a", "n", "d", "o", "m", " ", "s", "t", "u", "d", "e", "n", "t">>

\* "help"
msgHelp ==
    <<"h", "e", "l", "p">>

\* "banana smoothie"
msgBanana ==
    <<"b", "a", "n", "a", "n", "a", " ", "s", "m", "o", "o", "t", "h", "i", "e">>

Messages == {
    msgStartQuiz,
    msgResetQuiz,
    msgYes,
    msgYesPadded,
    msgNo,
    msgMaybe,
    msgWater,
    msgMarkAttendance,
    msgPresentList,
    msgAddAliceBob,
    msgAddBobCara,
    msgStats,
    msgGiveFeedback,
    msgRandomStudent,
    msgHelp,
    msgBanana }

(***************************************************************************)
(* Program state.                                                          *)
(*   state       the module-level dict `state` without its constant bank   *)
(*   students    table students(id, name UNIQUE), in rowid order           *)
(*   attendance  table attendance(date, student_id, status)                *)
(*   feedback    table feedback(text, timestamp)                           *)
(*   now         the calendar day datetime.now() reports                   *)
(*   resp        the response to the last /chat request                    *)
(*   steps       number of requests handled so far                         *)
(*   inflight    per server thread, the request it is in the middle of     *)
(***************************************************************************)
VARIABLES state, students, attendance, feedback, now, resp, steps, inflight

vars == <<state, students, attendance, feedback, now, resp, steps, inflight>>

tables == <<students, attendance, feedback>>

\* the threads of the development server started by app.run
Threads == {"t1", "t2"}

\* the locals of chat() in a thread that is handling no request
IdleRequest ==
    [ pc           |-> "idle",
      user_message |-> <<>>,
      lo           |-> <<>>,
      today        |-> 0,
      response     |-> [kind |-> "none", args |-> <<>>] ]

InitialState ==
    [ is_taking_attendance    |-> FALSE,
      present_students        |-> <<>>,
      awaiting_feedback       |-> FALSE,
      current_question        |-> None,
      asked_questions         |-> <<>>,
      waiting_for_quiz_yes_no |-> FALSE,
      score                   |-> 0,
      total_answered          |-> 0 ]

Init ==
    /\ state = InitialState
    /\ students = <<>>
    /\ attendance = <<>>
    /\ feedback = <<>>
    /\ now = 1
    /\ resp = [kind |-> "none", args |-> <<>>]
    /\ steps = 0
    /\ inflight = [t \in Threads |-> IdleRequest]

Response(kind, args) == [kind |-> kind, args |-> args]

(***************************************************************************)
(* Persistence functions.                                                  *)
(***************************************************************************)
\* SELECT name FROM students
get_all_students(tbl) == [i \in 1..Len(tbl) |-> tbl[i].name]

\* an insert without the UNIQUE constraint
add_student_NoUnique(tbl, name) == Append(tbl, [id |-> Len(tbl) + 1, name |-> name])

\* INSERT INTO students(name); the UNIQUE violation is swallowed
add_student(tbl, name) ==
    IF \E i \in 1..Len(tbl) : tbl[i].name = name
    THEN tbl
    ELSE Append(tbl, [id |-> Len(tbl) + 1, name |-> name])

\* for n in names: add_student(n)
RECURSIVE add_students(_, _)
add_students(tbl, names) ==
    IF names = <<>> THEN tbl
    ELSE add_students(add_student(tbl, Head(names)), Tail(names))

\* SELECT id FROM students WHERE name=?; INSERT INTO attendance if a row is found
mark_attendance(att, tbl, date, student_name, status) ==
    IF \E i \in 1..Len(tbl) : tbl[i].name = student_name
    THEN LET row == tbl[CHOOSE i \in 1..Len(tbl) : tbl[i].name = student_name]
         IN  Append(att, [date |-> date, student_id |-> row.id, status |-> status])
    ELSE att

\* SELECT s.name, a.status FROM attendance a JOIN students s ... WHERE a.date=?
get_attendance(att, tbl, date) ==
    LET joined == SelectSeq(att, LAMBDA a :
                      a.date = date /\ \E i \in 1..Len(tbl) : tbl[i].id = a.student_id)
    IN  [k \in 1..Len(joined) |->
            <<tbl[CHOOSE i \in 1..Len(tbl) : tbl[i].id = joined[k].student_id].name,
              joined[k].status>>]

\* INSERT INTO feedback(text, timestamp)
add_feedback(fb, text, stamp) == Append(fb, [text |-> text, timestamp |-> stamp])

(***************************************************************************)
(* pick_unused_question: every value random.choice may return, or None.    *)
(***************************************************************************)
\* a picker that ignores what has been asked
UnusedQuestions_IgnoresAsked(st) == quiz_questions

UnusedQuestions(st) ==
    SelectSeq(quiz_questions, LAMBDA qa : ~InSeq(qa[1], st.asked_questions))

pick_unused_question(st) ==
    LET unused == UnusedQuestions(st)
    IN  IF unused # <<>>
        THEN {Some(unused[i]) : i \in 1..Len(unused)}
        ELSE {None}

\* branch 1 that forgets to clear the question it has just scored
AnswerQuestion_KeepsQuestion(lo) ==
    LET cq      == state.current_question[1]
        correct == Strip(Lower(cq.a))
        hit     == Contains(correct, lo)
    IN  /\ state' = [state EXCEPT
                        !.total_answered = @ + 1,
                        !.score = IF hit THEN @ + 1 ELSE @,
                        !.asked_questions = Append(@, cq.q),
                        !.waiting_for_quiz_yes_no = TRUE]
        /\ resp' = IF hit THEN Response("correct", <<>>)
                          ELSE Response("incorrect", <<correct>>)
        /\ UNCHANGED tables

(***************************************************************************)
(* chat(), branch 1: a question is active, the message is the answer.      *)
(***************************************************************************)
AnswerQuestion(lo) ==
    LET cq      == state.current_question[1]
        correct == Strip(Lower(cq.a))
        hit     == Contains(correct, lo)
    IN  /\ state' = [state EXCEPT
                        !.total_answered = @ + 1,
                        !.score = IF hit THEN @ + 1 ELSE @,
                        !.asked_questions = Append(@, cq.q),
                        !.current_question = None,
                        !.waiting_for_quiz_yes_no = TRUE]
        /\ resp' = IF hit THEN Response("correct", <<>>)
                          ELSE Response("incorrect", <<correct>>)
        /\ UNCHANGED tables

\* branch 2 whose "no" arm also forgets the questions asked
QuizYesNo_NoClearsAsked(lo) ==
    IF lo \in YesPhrases
    THEN \E qa \in pick_unused_question(state) :
            /\ IF qa = None
               THEN /\ state' = [state EXCEPT !.waiting_for_quiz_yes_no = FALSE]
                    /\ resp' = Response("no_more_questions",
                                        <<state.score, state.total_answered>>)
               ELSE /\ state' = [state EXCEPT
                                    !.current_question =
                                        Some([q |-> qa[1][1], a |-> qa[1][2]]),
                                    !.waiting_for_quiz_yes_no = FALSE]
                    /\ resp' = Response("next_question", <<qa[1][1]>>)
            /\ UNCHANGED tables
    ELSE IF lo \in NoPhrases
    THEN /\ state' = [state EXCEPT !.waiting_for_quiz_yes_no = FALSE,
                                   !.asked_questions = <<>>]
         /\ resp' = Response("quiz_ended", <<state.score, state.total_answered>>)
         /\ UNCHANGED tables
    ELSE /\ resp' = Response("reply_yes_or_no", <<>>)
         /\ UNCHANGED <<state, tables>>

\* branch 2 that leaves the gate up when no question is left
QuizYesNo_ExhaustedKeepsGate(lo) ==
    IF lo \in YesPhrases
    THEN \E qa \in pick_unused_question(state) :
            /\ IF qa = None
               THEN /\ state' = state
                    /\ resp' = Response("no_more_questions",
                                        <<state.score, state.total_answered>>)
               ELSE /\ state' = [state EXCEPT
                                    !.current_question =
                                        Some([q |-> qa[1][1], a |-> qa[1][2]]),
                                    !.waiting_for_quiz_yes_no = FALSE]
                    /\ resp' = Response("next_question", <<qa[1][1]>>)
            /\ UNCHANGED tables
    ELSE IF lo \in NoPhrases
    THEN /\ state' = [state EXCEPT !.waiting_for_quiz_yes_no = FALSE]
         /\ resp' = Response("quiz_ended", <<state.score, state.total_answered>>)
         /\ UNCHANGED tables
    ELSE /\ resp' = Response("reply_yes_or_no", <<>>)
         /\ UNCHANGED <<state, tables>>

\* branch 2 whose "no" arm leaves the gate up
QuizYesNo_NoKeepsGate(lo) ==
    IF lo \in YesPhrases
    THEN \E qa \in pick_unused_question(state) :
            /\ IF qa = None
               THEN /\ state' = [state EXCEPT !.waiting_for_quiz_yes_no = FALSE]
                    /\ resp' = Response("no_more_questions",
                                        <<state.score, state.total_answered>>)
               ELSE /\ state' = [state EXCEPT
                                    !.current_question =
                                        Some([q |-> qa[1][1], a |-> qa[1][2]]),
                                    !.waiting_for_quiz_yes_no = FALSE]
                    /\ resp' = Response("next_question", <<qa[1][1]>>)
            /\ UNCHANGED tables
    ELSE IF lo \in NoPhrases
    THEN /\ state' = state
         /\ resp' = Response("quiz_ended", <<state.score, state.total_answered>>)
         /\ UNCHANGED tables
    ELSE /\ resp' = Response("reply_yes_or_no", <<>>)
         /\ UNCHANGED <<state, tables>>

\* branch 2 whose last arm leaves the gate instead of holding it
QuizYesNo_OtherLeavesGate(lo) ==
    IF lo \in YesPhrases
    THEN \E qa \in pick_unused_question(state) :
            /\ IF qa = None
               THEN /\ state' = [state EXCEPT !.waiting_for_quiz_yes_no = FALSE]
                    /\ resp' = Response("no_more_questions",
                                        <<state.score, state.total_answered>>)
               ELSE /\ state' = [state EXCEPT
                                    !.current_question =
                                        Some([q |-> qa[1][1], a |-> qa[1][2]]),
                                    !.waiting_for_quiz_yes_no = FALSE]
                    /\ resp' = Response("next_question", <<qa[1][1]>>)
            /\ UNCHANGED tables
    ELSE IF lo \in NoPhrases
    THEN /\ state' = [state EXCEPT !.waiting_for_quiz_yes_no = FALSE]
         /\ resp' = Response("quiz_ended", <<state.score, state.total_answered>>)
         /\ UNCHANGED tables
    ELSE /\ state' = [state EXCEPT !.waiting_for_quiz_yes_no = FALSE]
         /\ resp' = Response("reply_yes_or_no", <<>>)
         /\ UNCHANGED tables

(***************************************************************************)
(* chat(), branch 2: the quiz waits for yes/no.                            *)
(***************************************************************************)
QuizYesNo(lo) ==
    IF lo \in YesPhrases
    THEN \E qa \in pick_unused_question(state) :
            /\ IF qa = None
               THEN /\ state' = [state EXCEPT !.waiting_for_quiz_yes_no = FALSE]
                    /\ resp' = Response("no_more_questions",
                                        <<state.score, state.total_answered>>)
               ELSE /\ state' = [state EXCEPT
                                    !.current_question =
                                        Some([q |-> qa[1][1], a |-> qa[1][2]]),
                                    !.waiting_for_quiz_yes_no = FALSE]
                    /\ resp' = Response("next_question", <<qa[1][1]>>)
            /\ UNCHANGED tables
    ELSE IF lo \in NoPhrases
    THEN /\ state' = [state EXCEPT !.waiting_for_quiz_yes_no = FALSE]
         /\ resp' = Response("quiz_ended", <<state.score, state.total_answered>>)
         /\ UNCHANGED tables
    ELSE /\ resp' = Response("reply_yes_or_no", <<>>)
         /\ UNCHANGED <<state, tables>>

(***************************************************************************)
(* chat(), branch 3: attendance capture, the message lists who is present. *)
(***************************************************************************)
\* the roster loop comparing names without lowercasing them
RECURSIVE CaptureLoop_CaseSensitive(_, _, _, _, _, _)
CaptureLoop_CaseSensitive(todo, lower_present, present, att, tbl, today) ==
    IF todo = <<>>
    THEN [present |-> present, att |-> att]
    ELSE LET s == Head(todo)
         IN  IF s \in lower_present
             THEN CaptureLoop_CaseSensitive(Tail(todo), lower_present, Append(present, s),
                              mark_attendance(att, tbl, today, s, "present"),
                              tbl, today)
             ELSE CaptureLoop_CaseSensitive(Tail(todo), lower_present, present,
                              mark_attendance(att, tbl, today, s, "absent"),
                              tbl, today)

\* the `for s in all_students` loop: present_students and the table it leaves
RECURSIVE CaptureLoop(_, _, _, _, _, _)
CaptureLoop(todo, lower_present, present, att, tbl, today) ==
    IF todo = <<>>
    THEN [present |-> present, att |-> att]
    ELSE LET s == Head(todo)
         IN  IF Lower(s) \in lower_present
             THEN CaptureLoop(Tail(todo), lower_present, Append(present, s),
                              mark_attendance(att, tbl, today, s, "present"),
                              tbl, today)
             ELSE CaptureLoop(Tail(todo), lower_present, present,
                              mark_attendance(att, tbl, today, s, "absent"),
                              tbl, today)

\* a capture that adds to the present list of the earlier captures
AttendanceCapture_Accumulates(user_message, today) ==
    LET present_names == SplitNames(user_message)
        all_students  == get_all_students(students)
        lower_present == {Lower(present_names[i]) : i \in 1..Len(present_names)}
        done          == CaptureLoop(all_students, lower_present,
                                     state.present_students,
                                     attendance, students, today)
        absent        == SelectSeq(all_students,
                                   LAMBDA s : ~InSeq(s, done.present))
    IN  /\ state' = [state EXCEPT !.is_taking_attendance = FALSE,
                                  !.present_students = done.present]
        /\ attendance' = done.att
        /\ resp' = Response("attendance_complete",
                            <<Len(done.present), Len(absent), absent>>)
        /\ UNCHANGED <<students, feedback>>

AttendanceCapture(user_message, today) ==
    LET present_names == SplitNames(user_message)
        all_students  == get_all_students(students)
        lower_present == {Lower(present_names[i]) : i \in 1..Len(present_names)}
        done          == CaptureLoop(all_students, lower_present, <<>>,
                                     attendance, students, today)
        absent        == SelectSeq(all_students,
                                   LAMBDA s : ~InSeq(s, done.present))
    IN  /\ state' = [state EXCEPT !.is_taking_attendance = FALSE,
                                  !.present_students = done.present]
        /\ attendance' = done.att
        /\ resp' = Response("attendance_complete",
                            <<Len(done.present), Len(absent), absent>>)
        /\ UNCHANGED <<students, feedback>>

(***************************************************************************)
(* chat(), branch 4: feedback capture.                                     *)
(***************************************************************************)
\* a feedback capture that stays in capture mode
FeedbackCapture_KeepsFlag(user_message, stamp) ==
    /\ feedback' = add_feedback(feedback, user_message, stamp)
    /\ resp' = Response("feedback_saved", <<>>)
    /\ UNCHANGED <<state, students, attendance>>

FeedbackCapture(user_message, stamp) ==
    /\ state' = [state EXCEPT !.awaiting_feedback = FALSE]
    /\ feedback' = add_feedback(feedback, user_message, stamp)
    /\ resp' = Response("feedback_saved", <<>>)
    /\ UNCHANGED <<students, attendance>>

(***************************************************************************)
(* chat(), branch 5: the literal command table, and 6: the fallback.       *)
(***************************************************************************)
\* an attendance start that does not look at the roster
StartAttendance_IgnoresRoster ==
    /\ state' = [state EXCEPT !.is_taking_attendance = TRUE]
    /\ resp' = Response("send_present_list", <<>>)
    /\ UNCHANGED tables

StartAttendance ==
    IF get_all_students(students) = <<>>
    THEN /\ resp' = Response("no_students", <<>>)
         /\ UNCHANGED <<state, tables>>
    ELSE /\ state' = [state EXCEPT !.is_taking_attendance = TRUE]
         /\ resp' = Response("send_present_list", <<>>)
         /\ UNCHANGED tables

\* a quiz start that always starts the score from zero
StartQuiz_AlwaysResetsScore ==
    LET fresh == [state EXCEPT !.score = 0, !.total_answered = 0]
    IN  \E qa \in pick_unused_question(fresh) :
            /\ IF qa = None
               THEN /\ state' = fresh
                    /\ resp' = Response("all_questions_used", <<>>)
               ELSE /\ state' = [fresh EXCEPT
                                    !.current_question =
                                        Some([q |-> qa[1][1], a |-> qa[1][2]])]
                    /\ resp' = Response("quiz_question", <<qa[1][1]>>)
            /\ UNCHANGED tables

StartQuiz ==
    LET fresh == IF state.asked_questions = <<>> /\ state.total_answered = 0
                 THEN [state EXCEPT !.score = 0, !.total_answered = 0]
                 ELSE state
    IN  \E qa \in pick_unused_question(fresh) :
            /\ IF qa = None
               THEN /\ state' = fresh
                    /\ resp' = Response("all_questions_used", <<>>)
               ELSE /\ state' = [fresh EXCEPT
                                    !.current_question =
                                        Some([q |-> qa[1][1], a |-> qa[1][2]])]
                    /\ resp' = Response("quiz_question", <<qa[1][1]>>)
            /\ UNCHANGED tables

\* a reset that forgets the score counters
ResetQuiz_KeepsScore ==
    /\ state' = [state EXCEPT !.current_question = None,
                              !.asked_questions = <<>>,
                              !.waiting_for_quiz_yes_no = FALSE]
    /\ resp' = Response("quiz_reset", <<>>)
    /\ UNCHANGED tables

\* a reset that re-creates the whole session record
ResetQuiz_ClearsSession ==
    /\ state' = InitialState
    /\ resp' = Response("quiz_reset", <<>>)
    /\ UNCHANGED tables

ResetQuiz ==
    /\ state' = [state EXCEPT !.current_question = None,
                              !.asked_questions = <<>>,
                              !.waiting_for_quiz_yes_no = FALSE,
                              !.score = 0,
                              !.total_answered = 0]
    /\ resp' = Response("quiz_reset", <<>>)
    /\ UNCHANGED tables

AttendanceStats(today) ==
    LET rows    == get_attendance(attendance, students, today)
        present == Len(SelectSeq(rows, LAMBDA r : r[2] = "present"))
        absent  == Len(SelectSeq(rows, LAMBDA r : r[2] = "absent"))
        total   == present + absent
    IN  /\ resp' = IF total = 0
                   THEN Response("no_attendance_today", <<>>)
                   ELSE Response("stats", <<total, present, absent>>)
        /\ UNCHANGED <<state, tables>>

StartFeedback ==
    /\ state' = [state EXCEPT !.awaiting_feedback = TRUE]
    /\ resp' = Response("type_feedback", <<>>)
    /\ UNCHANGED tables

AddStudents(user_message) ==
    LET names_part == Strip(SubSeq(user_message, Len(AddStudentsPrefix) + 1,
                                   Len(user_message)))
        names      == SplitNames(names_part)
    IN  IF names = <<>>
        THEN /\ resp' = Response("provide_names", <<>>)
             /\ UNCHANGED <<state, tables>>
        ELSE /\ students' = add_students(students, names)
             /\ resp' = Response("students_added", names)
             /\ UNCHANGED <<state, attendance, feedback>>

RandomStudent ==
    IF state.present_students = <<>>
    THEN /\ resp' = Response("take_attendance_first", <<>>)
         /\ UNCHANGED <<state, tables>>
    ELSE /\ \E i \in 1..Len(state.present_students) :
                resp' = Response("random_student", <<state.present_students[i]>>)
         /\ UNCHANGED <<state, tables>>

Help ==
    /\ resp' = Response("help", <<>>)
    /\ UNCHANGED <<state, tables>>

\* a fallback that stores the lowercased text it matched against
Fallback_StoresLowercased(user_message, stamp) ==
    /\ feedback' = add_feedback(feedback, Lower(user_message), stamp)
    /\ resp' = Response("feedback_saved", <<>>)
    /\ UNCHANGED <<state, students, attendance>>

Fallback(user_message, stamp) ==
    /\ feedback' = add_feedback(feedback, user_message, stamp)
    /\ resp' = Response("feedback_saved", <<>>)
    /\ UNCHANGED <<state, students, attendance>>

Commands(user_message, lo, today) ==
    IF lo \in AttendancePhrases THEN StartAttendance
    ELSE IF lo \in QuizStartPhrases THEN StartQuiz
    ELSE IF lo \in QuizResetPhrases THEN ResetQuiz
    ELSE IF lo \in StatsPhrases THEN AttendanceStats(today)
    ELSE IF lo \in FeedbackPhrases THEN StartFeedback
    ELSE IF StartsWith(lo, AddStudentsPrefix) THEN AddStudents(user_message)
    ELSE IF lo \in RandomStudentPhrases THEN RandomStudent
    ELSE IF lo \in HelpPhrases THEN Help
    ELSE Fallback(user_message, today)

(***************************************************************************)
(* The /chat route: one request with body m.  datetime.now() gives the     *)
(* day `now`, which both `today` and the feedback timestamp are taken from.*)
(***************************************************************************)
\* a chain that lets the reset command overtake the conversation modes
Dispatch_ResetFirst(user_message, lo, today) ==
    IF lo \in QuizResetPhrases THEN ResetQuiz
    ELSE IF state.current_question # None THEN AnswerQuestion(lo)
    ELSE IF state.waiting_for_quiz_yes_no THEN QuizYesNo(lo)
    ELSE IF state.is_taking_attendance THEN AttendanceCapture(user_message, today)
    ELSE IF state.awaiting_feedback THEN FeedbackCapture(user_message, today)
    ELSE Commands(user_message, lo, today)

Dispatch(user_message, lo, today) ==
    IF state.current_question # None THEN AnswerQuestion(lo)
    ELSE IF state.waiting_for_quiz_yes_no THEN QuizYesNo(lo)
    ELSE IF state.is_taking_attendance THEN AttendanceCapture(user_message, today)
    ELSE IF state.awaiting_feedback THEN FeedbackCapture(user_message, today)
    ELSE Commands(user_message, lo, today)

chat(m) ==
    /\ steps < MaxSteps
    /\ steps' = steps + 1
    /\ now' = now
    /\ LET user_message == Strip(m)
           lo           == Lower(user_message)
       IN  Dispatch(user_message, lo, now)
    /\ Len(feedback') <= MaxFeedback
    /\ UNCHANGED inflight

\* the calendar day changes between two requests
DayPasses ==
    /\ now < MaxDay
    /\ now' = now + 1
    /\ UNCHANGED <<state, tables, resp, steps, inflight>>

Next ==
    \/ \E m \in Messages : chat(m)
    \/ DayPasses

Spec == Init /\ [][Next]_vars

(***************************************************************************)
(* Requests served by the threads of app.run: chat() takes no lock, so the *)
(* statements of two requests interleave.  Branch 1 is followed statement  *)
(* group by statement group; the other branches run in one step.           *)
(***************************************************************************)
\* lines 448-450: the thread reads the body of its request
Receive(t, m) ==
    /\ steps < MaxSteps
    /\ inflight[t].pc = "idle"
    /\ steps' = steps + 1
    /\ inflight' = [inflight EXCEPT ![t] =
                       [ pc           |-> "dispatch",
                         user_message |-> Strip(m),
                         lo           |-> Lower(Strip(m)),
                         today        |-> now,
                         response     |-> Response("none", <<>>) ]]
    /\ UNCHANGED <<state, tables, now, resp>>

\* line 453: a question is current, the thread enters branch 1
EnterAnswer(t) ==
    /\ inflight[t].pc = "dispatch"
    /\ state.current_question # None
    /\ inflight' = [inflight EXCEPT ![t].pc = "score"]
    /\ UNCHANGED <<state, tables, now, resp, steps>>

\* line 453 is false: the rest of the chain, to its return
HandleOther(t) ==
    /\ inflight[t].pc = "dispatch"
    /\ state.current_question = None
    /\ Dispatch(inflight[t].user_message, inflight[t].lo, inflight[t].today)
    /\ Len(feedback') <= MaxFeedback
    /\ inflight' = [inflight EXCEPT ![t] = IdleRequest]
    /\ UNCHANGED <<now, steps>>

\* lines 454-461; subscripting None raises TypeError and the request fails
Score(t) ==
    /\ inflight[t].pc = "score"
    /\ IF state.current_question = None
       THEN /\ resp' = Response("server_error", <<>>)
            /\ inflight' = [inflight EXCEPT ![t] = IdleRequest]
            /\ UNCHANGED state
       ELSE LET correct == Strip(Lower(state.current_question[1].a))
                hit     == Contains(correct, inflight[t].lo)
            IN  /\ state' = [state EXCEPT
                                !.total_answered = @ + 1,
                                !.score = IF hit THEN @ + 1 ELSE @]
                /\ inflight' = [inflight EXCEPT
                                   ![t].pc = "append",
                                   ![t].response =
                                       IF hit THEN Response("correct", <<>>)
                                       ELSE Response("incorrect", <<correct>>)]
                /\ UNCHANGED resp
    /\ UNCHANGED <<tables, now, steps>>

\* line 464
AppendAsked(t) ==
    /\ inflight[t].pc = "append"
    /\ IF state.current_question = None
       THEN /\ resp' = Response("server_error", <<>>)
            /\ inflight' = [inflight EXCEPT ![t] = IdleRequest]
            /\ UNCHANGED state
       ELSE /\ state' = [state EXCEPT
                            !.asked_questions =
                                Append(@, state.current_question[1].q)]
            /\ inflight' = [inflight EXCEPT ![t].pc = "clear"]
            /\ UNCHANGED resp
    /\ UNCHANGED <<tables, now, steps>>

\* lines 465-469
ClearQuestion(t) ==
    /\ inflight[t].pc = "clear"
    /\ state' = [state EXCEPT !.current_question = None,
                              !.waiting_for_quiz_yes_no = TRUE]
    /\ resp' = inflight[t].response
    /\ inflight' = [inflight EXCEPT ![t] = IdleRequest]
    /\ UNCHANGED <<tables, now, steps>>

NextThreaded ==
    \/ \E t \in Threads, m \in Messages : Receive(t, m)
    \/ \E t \in Threads : EnterAnswer(t)
    \/ \E t \in Threads : HandleOther(t)
    \/ \E t \in Threads : Score(t)
    \/ \E t \in Threads : AppendAsked(t)
    \/ \E t \in Threads : ClearQuestion(t)
    \/ DayPasses

SpecThreaded == Init /\ [][NextThreaded]_vars

(***************************************************************************)
(* A session in progress.  "add students Alice, Bob", "mark attendance"    *)
(* and "alice" were handled on day 1; then a quiz was started, the first   *)
(* AskedAtStart questions of the bank were asked in bank order (an order   *)
(* random.choice can produce) and answered, any number of them right, and  *)
(* the quiz now waits for yes/no.                                          *)
(***************************************************************************)
nameAlice == <<"A", "l", "i", "c", "e">>

nameBob == <<"B", "o", "b">>

LateInit ==
    /\ \E s \in 0..AskedAtStart :
          state = [InitialState EXCEPT
                      !.present_students = <<nameAlice>>,
                      !.asked_questions =
                          [i \in 1..AskedAtStart |-> quiz_questions[i][1]],
                      !.total_answered = AskedAtStart,
                      !.score = s,
                      !.waiting_for_quiz_yes_no = TRUE]
    /\ students = <<[id |-> 1, name |-> nameAlice], [id |-> 2, name |-> nameBob]>>
    /\ attendance = <<[date |-> 1, student_id |-> 1, status |-> "present"],
                      [date |-> 1, student_id |-> 2, status |-> "absent"]>>
    /\ feedback = <<>>
    /\ now = 1
    /\ resp = [kind |-> "none", args |-> <<>>]
    /\ steps = 0
    /\ inflight = [t \in Threads |-> IdleRequest]

SpecLate == LateInit /\ [][Next]_vars

(***************************************************************************)
(* Vocabulary of the properties.                                           *)
(***************************************************************************)
\* the request with body m is handled in this step
Handled(m) == chat(m)

\* the text chat() matches against its phrases: trimmed and lowercased
LoOf == [m \in Messages |-> Lower(Strip(m))]

Lo(m) == LoOf[m]

NoModeActive ==
    /\ state.current_question = None
    /\ ~state.waiting_for_quiz_yes_no
    /\ ~state.is_taking_attendance
    /\ ~state.awaiting_feedback

QuizCleared(st) ==
    /\ st.asked_questions = <<>>
    /\ st.current_question = None
    /\ ~st.waiting_for_quiz_yes_no
    /\ st.score = 0
    /\ st.total_answered = 0

IsPrefix(a, b) == Len(a) <= Len(b) /\ SubSeq(b, 1, Len(a)) = a

(***************************************************************************)
(* C1.  In every reachable state current_question is not set while         *)
(* waiting_for_quiz_yes_no is true.                                        *)
(***************************************************************************)
C1_QuestionExcludesGate ==
    ~(state.current_question # None /\ state.waiting_for_quiz_yes_no)

\* an answer has been scored: the question was cleared and the gate raised
C1_Witness ==
    /\ state.waiting_for_quiz_yes_no
    /\ state.total_answered > 0
    /\ resp.kind \in {"correct", "incorrect"}

(***************************************************************************)
(* C2.  As stated: after a message "reset quiz" / "restart quiz" is        *)
(* handled, whatever the session state was before it, the quiz fields are  *)
(* cleared.                                                                *)
(***************************************************************************)
C2_ResetInAnyState ==
    [][\A m \in Messages :
          (Lo(m) \in QuizResetPhrases /\ Handled(m)) => QuizCleared(state')]_vars

(***************************************************************************)
(* C2, amended.  A "reset quiz" / "restart quiz" message handled while no  *)
(* mode is active (no current question, no yes/no gate, no attendance      *)
(* capture, no feedback capture) clears askedQuestions, currentQuestion,   *)
(* awaitingQuizContinue, score and totalAnswered and answers with the      *)
(* reset notice.                                                           *)
(***************************************************************************)
C2_ResetFromCommandTable ==
    [][NoModeActive =>
          \A m \in Messages :
              (Lo(m) \in QuizResetPhrases /\ Handled(m))
                  => (QuizCleared(state') /\ resp'.kind = "quiz_reset")]_vars

\* a reset was executed as the fourth request (after start, answer, "no")
C2_Witness ==
    /\ resp.kind = "quiz_reset"
    /\ steps = 4
    /\ QuizCleared(state)

(***************************************************************************)
(* C3.  As stated: while the quiz waits for yes/no, a message whose        *)
(* lowercased text is not one of yes, y, no, n changes neither the session *)
(* record nor any table and is answered with the yes/no prompt.            *)
(***************************************************************************)
C3_GateHoldsOnLowercased ==
    [][\A m \in Messages :
          (/\ state.waiting_for_quiz_yes_no
           /\ Lower(m) \notin (YesPhrases \cup NoPhrases)
           /\ Handled(m))
              => (/\ state' = state
                  /\ tables' = tables
                  /\ resp'.kind = "reply_yes_or_no")]_vars

(***************************************************************************)
(* C3, amended.  While the quiz waits for yes/no, a message whose trimmed  *)
(* and lowercased text is not one of yes, y, no, n changes neither the     *)
(* session record nor any table and is answered with the yes/no prompt;    *)
(* the gate is left only by a message whose trimmed lowercased text is one *)
(* of the four.                                                            *)
(***************************************************************************)
C3_GateHoldsOnTrimmedLowercased ==
    [][state.waiting_for_quiz_yes_no =>
          \A m \in Messages :
              Handled(m)
                  => /\ Lo(m) \notin (YesPhrases \cup NoPhrases)
                        => (/\ state' = state
                            /\ tables' = tables
                            /\ resp'.kind = "reply_yes_or_no")
                     /\ ~state'.waiting_for_quiz_yes_no
                        => Lo(m) \in (YesPhrases \cup NoPhrases)]_vars

\* the gate has just turned a message away
C3_Witness ==
    /\ resp.kind = "reply_yes_or_no"
    /\ state.waiting_for_quiz_yes_no

(***************************************************************************)
(* C4.  With a question current, any message adds 1 to totalAnswered, adds *)
(* 1 to score exactly when the lowercased expected answer is a substring   *)
(* of the trimmed lowercased message, appends the question text to         *)
(* askedQuestions, unsets currentQuestion and raises the yes/no gate;      *)
(* "it is water indeed" is right for "What is H2O?" / "Water".             *)
(***************************************************************************)
C4_AnswerScoring ==
    [][state.current_question # None =>
          \A m \in Messages :
              Handled(m)
              => LET cq  == state.current_question[1]
                     lo  == Lo(m)
                     hit == \E i \in 0..Len(lo) :
                                /\ i + Len(cq.a) <= Len(lo)
                                /\ \A k \in 1..Len(cq.a) :
                                      lo[i + k] = LowerChar(cq.a[k])
                 IN  /\ state'.total_answered = state.total_answered + 1
                     /\ state'.score = state.score + (IF hit THEN 1 ELSE 0)
                     /\ state'.asked_questions =
                            Append(state.asked_questions, cq.q)
                     /\ state'.current_question = None
                     /\ state'.waiting_for_quiz_yes_no
                     /\ state'.is_taking_attendance = state.is_taking_attendance
                     /\ state'.awaiting_feedback = state.awaiting_feedback
                     /\ state'.present_students = state.present_students
                     /\ (cq.q = "What is H2O?" /\ m = msgWater)
                            => state'.score = state.score + 1]_vars

\* "What is H2O?" has been answered with a sentence containing "water"
C4_Witness ==
    /\ resp.kind = "correct"
    /\ state.score = 1
    /\ state.total_answered = 1
    /\ state.asked_questions = <<"What is H2O?">>
    /\ state.waiting_for_quiz_yes_no

\* every question of the bank has been asked and answered
AllAsked == \A i \in 1..Len(quiz_questions) :
                InSeq(quiz_questions[i][1], state.asked_questions)

(***************************************************************************)
(* C5.  As stated: once all 9 bank questions have been asked and answered  *)
(* without a reset, the next quiz-start message returns the exhaustion     *)
(* message and installs no current question.                               *)
(***************************************************************************)
C5_NextQuizStartReportsExhaustion ==
    [][AllAsked =>
          \A m \in Messages :
              (Lo(m) \in QuizStartPhrases /\ Handled(m))
              => (/\ resp'.kind = "all_questions_used"
                  /\ state'.current_question = None)]_vars

(***************************************************************************)
(* C5, amended.  Once all 9 bank questions have been asked and answered    *)
(* without a reset, a quiz-start message executed from the command table   *)
(* (no yes/no gate pending, no attendance or feedback capture active)      *)
(* returns the exhaustion message and leaves the session record unchanged; *)
(* a quiz-start message that arrives while the yes/no gate is still        *)
(* pending gets the yes/no prompt instead.  In every case no current       *)
(* question is installed.                                                  *)
(***************************************************************************)
C5_ExecutedQuizStartReportsExhaustion ==
    [][AllAsked =>
          \A m \in Messages :
              (Lo(m) \in QuizStartPhrases /\ Handled(m))
              => (/\ state'.current_question = None
                  /\ NoModeActive
                        => (resp'.kind = "all_questions_used" /\ state' = state)
                  /\ state.waiting_for_quiz_yes_no
                        => (resp'.kind = "reply_yes_or_no" /\ state' = state))]_vars

\* the exhaustion message has been returned with all 9 questions used
C5_Witness ==
    /\ resp.kind = "all_questions_used"
    /\ Len(state.asked_questions) = 9
    /\ state.current_question = None

(***************************************************************************)
(* C6.  In every reachable state askedQuestions has at most as many        *)
(* entries as the quiz bank, which has 9.                                  *)
(***************************************************************************)
C6_AskedWithinBank ==
    /\ Len(quiz_questions) = 9
    /\ Len(state.asked_questions) <= Len(quiz_questions)

\* the whole bank has been asked and the user asked for one more
C6_Witness ==
    /\ Len(state.asked_questions) = 9
    /\ resp.kind = "no_more_questions"

(***************************************************************************)
(* C7.  Across any handled message other than an executed quiz-reset       *)
(* command, askedQuestions before the message is a prefix of               *)
(* askedQuestions after it.                                                *)
(***************************************************************************)
C7_AskedOnlyGrows ==
    [][\/ IsPrefix(state.asked_questions, state'.asked_questions)
       \/ \A m \in Messages :
              Handled(m) => (NoModeActive /\ Lo(m) \in QuizResetPhrases)]_vars

\* a quiz with answered questions was ended with "no": the answers stay
C7_Witness ==
    /\ resp.kind = "quiz_ended"
    /\ Len(state.asked_questions) >= 1

(***************************************************************************)
(* C8.  While the quiz waits for yes/no, "yes" / "y" clears the gate; if   *)
(* some bank question is not in askedQuestions one such question becomes   *)
(* currentQuestion and its text is returned, otherwise nothing is          *)
(* installed and the final score/totalAnswered is reported.  score,        *)
(* totalAnswered and askedQuestions are unchanged either way.              *)
(***************************************************************************)
C8_YesAtGate ==
    [][state.waiting_for_quiz_yes_no =>
          \A m \in Messages :
              (Lo(m) \in YesPhrases /\ Handled(m))
              => /\ ~state'.waiting_for_quiz_yes_no
                 /\ state'.score = state.score
                 /\ state'.total_answered = state.total_answered
                 /\ state'.asked_questions = state.asked_questions
                 /\ IF AllAsked
                    THEN /\ state'.current_question = None
                         /\ resp' = Response("no_more_questions",
                                       <<state.score, state.total_answered>>)
                    ELSE \E i \in 1..Len(quiz_questions) :
                            /\ ~InSeq(quiz_questions[i][1], state.asked_questions)
                            /\ state'.current_question =
                                  Some([q |-> quiz_questions[i][1],
                                        a |-> quiz_questions[i][2]])
                            /\ resp' = Response("next_question",
                                          <<quiz_questions[i][1]>>)]_vars

\* "yes" was answered with the last unused question of the bank
C8_Witness ==
    /\ resp.kind = "next_question"
    /\ Len(state.asked_questions) = 8
    /\ state.current_question # None
    /\ ~state.waiting_for_quiz_yes_no

(***************************************************************************)
(* C9.  While the quiz waits for yes/no, "no" / "n" clears the gate,       *)
(* leaves no question current and reports exactly the score/totalAnswered  *)
(* held at that moment.                                                    *)
(***************************************************************************)
C9_NoAtGate ==
    [][state.waiting_for_quiz_yes_no =>
          \A m \in Messages :
              (Lo(m) \in NoPhrases /\ Handled(m))
              => /\ ~state'.waiting_for_quiz_yes_no
                 /\ state'.current_question = None
                 /\ resp' = Response("quiz_ended",
                               <<state.score, state.total_answered>>)
                 /\ state'.score = state.score
                 /\ state'.total_answered = state.total_answered]_vars

\* a quiz with one right answer out of one was ended with "no"
C9_Witness ==
    /\ resp = Response("quiz_ended", <<1, 1>>)
    /\ ~state.waiting_for_quiz_yes_no
    /\ state.current_question = None

(***************************************************************************)
(* C10.  A message handled in attendance-capture mode clears the capture   *)
(* flag and appends, for every roster student, exactly one attendance row  *)
(* dated today: "present" if the lowercased name equals the lowercase of a *)
(* trimmed non-empty comma-separated item of the message, else "absent".   *)
(* The response's present and absent counts add up to the roster size, its *)
(* absentee list is exactly the students recorded absent, and the rows of  *)
(* earlier captures are kept.                                              *)
(***************************************************************************)
\* lowercase of the trimmed non-empty comma-separated items of the raw body
ItemsOf(m) ==
    LET parts == Split(m)
    IN  {Lower(Strip(parts[i])) : i \in {k \in 1..Len(parts) : Strip(parts[k]) # <<>>}}

C10_AttendanceCapture ==
    [][state.is_taking_attendance =>
          \A m \in Messages :
              Handled(m)
              => LET old    == Len(attendance)
                     n      == Len(students)
                     items  == ItemsOf(m)
                     status(i) == IF Lower(students[i].name) \in items
                                  THEN "present" ELSE "absent"
                     absentees == {students[i].name : i \in
                                      {k \in 1..n : status(k) = "absent"}}
                 IN  /\ ~state'.is_taking_attendance
                     /\ Len(attendance') = old + n
                     /\ SubSeq(attendance', 1, old) = attendance
                     /\ \A i \in 1..n :
                           /\ Cardinality({k \in (old + 1)..(old + n) :
                                 attendance'[k].student_id = students[i].id}) = 1
                           /\ \A k \in (old + 1)..(old + n) :
                                 attendance'[k].student_id = students[i].id
                                    => /\ attendance'[k].date = now'
                                       /\ attendance'[k].status = status(i)
                     /\ resp'.kind = "attendance_complete"
                     /\ resp'.args[1] + resp'.args[2] = n
                     /\ resp'.args[2] = Cardinality(absentees)
                     /\ Len(resp'.args[3]) = Cardinality(absentees)
                     /\ {resp'.args[3][k] : k \in 1..Len(resp'.args[3])} = absentees
                     /\ students' = students
                     /\ feedback' = feedback]_vars

\* a second capture: some present, some absent, the first capture's rows kept
C10_Witness ==
    /\ resp.kind = "attendance_complete"
    /\ resp.args[1] > 0
    /\ resp.args[2] > 0
    /\ Len(attendance) = 2 + Len(students)
    /\ attendance[1].date = 1
    /\ ~state.is_taking_attendance

(***************************************************************************)
(* C11.  Adding students is idempotent: after an executed "add students    *)
(* X, Y" the roster holds X and Y exactly once each, and when X and Y were *)
(* already there (the same command executed again) the roster is           *)
(* unchanged.  The roster never holds one case-sensitive name twice and    *)
(* never loses an entry.                                                   *)
(***************************************************************************)
\* the trimmed non-empty comma-separated items after "add students"
NamesAfterPrefix(m) ==
    SplitNames(SubSeq(Strip(m), Len(AddStudentsPrefix) + 1, Len(Strip(m))))

TimesInRoster(name, tbl) == Cardinality({i \in 1..Len(tbl) : tbl[i].name = name})

C11_AddStudentsIdempotent ==
    [][/\ IsPrefix(students, students')
       /\ \A i, j \in 1..Len(students') :
             students'[i].name = students'[j].name => i = j
       /\ NoModeActive =>
             \A m \in Messages :
                 (StartsWith(Lo(m), AddStudentsPrefix) /\ Handled(m))
                 => LET names == NamesAfterPrefix(m)
                    IN  /\ \A k \in 1..Len(names) :
                              TimesInRoster(names[k], students') = 1
                        /\ (\A k \in 1..Len(names) :
                              TimesInRoster(names[k], students) = 1)
                              => students' = students
                        /\ names # <<>> => resp' = Response("students_added", names)
      ]_vars

\* "add students Alice, Bob" executed on a roster that already is Alice, Bob
C11_Witness ==
    /\ resp = Response("students_added", <<nameAlice, nameBob>>)
    /\ Len(students) = 2
    /\ students[1].name = nameAlice
    /\ students[2].name = nameBob
    /\ steps >= 2

(***************************************************************************)
(* C12.  As stated: with no mode active, a message that matches no phrase  *)
(* of the command table appends exactly one feedback entry whose text is   *)
(* that message, returns the thank-you acknowledgment and changes no       *)
(* session field; the entry is then part of the feedback listing.          *)
(***************************************************************************)
CommandPhrases ==
    AttendancePhrases \cup QuizStartPhrases \cup QuizResetPhrases \cup StatsPhrases
        \cup FeedbackPhrases \cup RandomStudentPhrases \cup HelpPhrases

MatchesNoCommand(m) ==
    Lo(m) \notin CommandPhrases /\ ~StartsWith(Lo(m), AddStudentsPrefix)

C12_FallbackStoresMessage ==
    [][NoModeActive =>
          \A m \in Messages :
              (MatchesNoCommand(m) /\ Handled(m))
              => /\ Len(feedback') = Len(feedback) + 1
                 /\ SubSeq(feedback', 1, Len(feedback)) = feedback
                 /\ feedback'[Len(feedback')].text = m
                 /\ resp'.kind = "feedback_saved"
                 /\ state' = state]_vars

(***************************************************************************)
(* C12, amended.  With no mode active, a message that matches no phrase of *)
(* the command table appends exactly one feedback entry whose text is that *)
(* message with its leading and trailing whitespace removed, returns the   *)
(* thank-you acknowledgment and changes no session field, roster or        *)
(* attendance row; the entry is the last one of the feedback listing.      *)
(***************************************************************************)
C12_FallbackStoresTrimmedMessage ==
    [][NoModeActive =>
          \A m \in Messages :
              (MatchesNoCommand(m) /\ Handled(m))
              => /\ Len(feedback') = Len(feedback) + 1
                 /\ SubSeq(feedback', 1, Len(feedback)) = feedback
                 /\ feedback'[Len(feedback')].text = Strip(m)
                 /\ resp'.kind = "feedback_saved"
                 /\ state' = state
                 /\ students' = students
                 /\ attendance' = attendance]_vars

\* "banana smoothie" sent as the first request is in the feedback table
C12_Witness ==
    /\ steps = 1
    /\ Len(feedback) = 1
    /\ feedback[1].text = msgBanana
    /\ resp.kind = "feedback_saved"
    /\ state = InitialState

(***************************************************************************)
(* C14.  An attendance-start phrase executed from the command table sets   *)
(* is_taking_attendance if and only if the roster is non-empty; with an    *)
(* empty roster it answers "No students found" and leaves the session      *)
(* unchanged.  While the flag is set, the next handled message, whatever   *)
(* its text, is taken as the list of present names: the flag is cleared    *)
(* and one attendance row per student is written.                          *)
(***************************************************************************)
C14_AttendanceStart ==
    [][/\ NoModeActive =>
             \A m \in Messages :
                 (Lo(m) \in AttendancePhrases /\ Handled(m))
                 => /\ state'.is_taking_attendance = (students # <<>>)
                    /\ tables' = tables
                    /\ IF students = <<>>
                       THEN /\ resp'.kind = "no_students"
                            /\ state' = state
                       ELSE /\ resp'.kind = "send_present_list"
                            /\ state' = [state EXCEPT !.is_taking_attendance = TRUE]
       /\ state.is_taking_attendance =>
             \A m \in Messages :
                 Handled(m)
                 => /\ resp'.kind = "attendance_complete"
                    /\ ~state'.is_taking_attendance
                    /\ Len(attendance') = Len(attendance) + Len(students)
                    /\ students' = students
                    /\ feedback' = feedback
                    /\ state' = [state EXCEPT
                                    !.is_taking_attendance = FALSE,
                                    !.present_students = state'.present_students]
      ]_vars

\* a message naming nobody of a non-empty roster was taken as the list
C14_Witness ==
    /\ resp.kind = "attendance_complete"
    /\ resp.args[1] = 0
    /\ resp.args[2] = Len(students)
    /\ Len(students) = 2
    /\ steps = 3

(***************************************************************************)
(* C15.  A feedback-start phrase executed from the command table sets      *)
(* awaiting_feedback and nothing else.  While it is set, the next handled  *)
(* message, whatever its text (command phrases included), is appended as   *)
(* exactly one feedback entry holding the trimmed text, clears             *)
(* awaiting_feedback, runs no command and changes no other session field,  *)
(* roster entry or attendance row.                                         *)
(***************************************************************************)
C15_FeedbackCapture ==
    [][/\ NoModeActive =>
             \A m \in Messages :
                 (Lo(m) \in FeedbackPhrases /\ Handled(m))
                 => /\ state' = [state EXCEPT !.awaiting_feedback = TRUE]
                    /\ tables' = tables
       /\ state.awaiting_feedback =>
             \A m \in Messages :
                 Handled(m)
                 => /\ feedback' = Append(feedback,
                                          [text |-> Strip(m), timestamp |-> now])
                    /\ state' = [state EXCEPT !.awaiting_feedback = FALSE]
                    /\ students' = students
                    /\ attendance' = attendance
                    /\ resp'.kind = "feedback_saved"
      ]_vars

\* "start quiz" sent while feedback was awaited is stored, and starts no quiz
C15_Witness ==
    /\ steps = 2
    /\ Len(feedback) = 1
    /\ feedback[1].text = msgStartQuiz
    /\ resp.kind = "feedback_saved"
    /\ state = InitialState

(***************************************************************************)
(* C16.  An executed quiz reset changes only the quiz fields:              *)
(* is_taking_attendance, present_students, awaiting_feedback, the roster,  *)
(* the attendance rows and the feedback entries are as before.             *)
(***************************************************************************)
C16_ResetFrame ==
    [][NoModeActive =>
          \A m \in Messages :
              (Lo(m) \in QuizResetPhrases /\ Handled(m))
              => /\ state'.is_taking_attendance = state.is_taking_attendance
                 /\ state'.present_students = state.present_students
                 /\ state'.awaiting_feedback = state.awaiting_feedback
                 /\ students' = students
                 /\ attendance' = attendance
                 /\ feedback' = feedback
                 /\ resp'.kind = "quiz_reset"]_vars

\* a reset was executed and the earlier attendance result is still there
C16_Witness ==
    /\ resp.kind = "quiz_reset"
    /\ state.present_students = <<nameAlice>>
    /\ attendance # <<>>
    /\ students # <<>>
    /\ state.asked_questions = <<>>

(***************************************************************************)
(* C17.  A quiz-start phrase executed from the command table sets score    *)
(* and total_answered to 0 only when asked_questions is empty and          *)
(* total_answered is 0; otherwise both keep their values, so a quiz ended  *)
(* with "no" and started again goes on accumulating.  It then installs a   *)
(* bank question that is not in asked_questions, or reports exhaustion     *)
(* when none is left; asked_questions itself is not touched.               *)
(***************************************************************************)
C17_QuizStart ==
    [][NoModeActive =>
          \A m \in Messages :
              (Lo(m) \in QuizStartPhrases /\ Handled(m))
              => LET untouched == /\ state.asked_questions = <<>>
                                  /\ state.total_answered = 0
                 IN  /\ state'.score = IF untouched THEN 0 ELSE state.score
                     /\ state'.total_answered =
                            IF untouched THEN 0 ELSE state.total_answered
                     /\ state'.asked_questions = state.asked_questions
                     /\ tables' = tables
                     /\ IF AllAsked
                        THEN /\ state'.current_question = None
                             /\ resp'.kind = "all_questions_used"
                        ELSE /\ state'.current_question # None
                             /\ ~InSeq(state'.current_question[1].q,
                                       state.asked_questions)
                             /\ \E i \in 1..Len(quiz_questions) :
                                   quiz_questions[i][1] =
                                       state'.current_question[1].q
                             /\ resp' = Response("quiz_question",
                                           <<state'.current_question[1].q>>)
      ]_vars

\* a quiz started again after "no" still carries the earlier score
C17_Witness ==
    /\ resp.kind = "quiz_question"
    /\ state.current_question # None
    /\ state.total_answered = AskedAtStart
    /\ state.score >= 1
    /\ Len(state.asked_questions) = AskedAtStart

(***************************************************************************)
(* C18.  Every handled message executes exactly one branch, chosen in the  *)
(* order active question, yes/no gate, attendance capture, feedback        *)
(* capture, command table, fallback.  While a question is current, any     *)
(* message (command phrases included) is scored as an answer: no command   *)
(* runs, no table is written and no attendance or feedback field changes.  *)
(***************************************************************************)
AnswerKinds == {"correct", "incorrect"}

GateKinds == {"no_more_questions", "next_question", "quiz_ended", "reply_yes_or_no"}

CommandKinds ==
    {"no_students", "send_present_list", "quiz_question", "all_questions_used",
     "quiz_reset", "no_attendance_today", "stats", "type_feedback",
     "provide_names", "students_added", "take_attendance_first",
     "random_student", "help"}

C18_OneBranchInOrder ==
    [][\A m \in Messages :
          Handled(m)
          => IF state.current_question # None
             THEN /\ resp'.kind \in AnswerKinds
                  /\ tables' = tables
                  /\ state' = [state EXCEPT
                                  !.total_answered = @ + 1,
                                  !.score = state'.score,
                                  !.asked_questions =
                                      Append(@, state.current_question[1].q),
                                  !.current_question = None,
                                  !.waiting_for_quiz_yes_no = TRUE]
                  /\ state'.score \in {state.score, state.score + 1}
             ELSE IF state.waiting_for_quiz_yes_no
             THEN /\ resp'.kind \in GateKinds
                  /\ tables' = tables
             ELSE IF state.is_taking_attendance
             THEN /\ resp'.kind = "attendance_complete"
                  /\ feedback' = feedback
             ELSE IF state.awaiting_feedback
             THEN /\ resp'.kind = "feedback_saved"
                  /\ ~state'.awaiting_feedback
             ELSE IF MatchesNoCommand(m)
             THEN /\ resp'.kind = "feedback_saved"
                  /\ state' = state
             ELSE /\ resp'.kind \in CommandKinds
                  /\ feedback' = feedback]_vars

\* with a roster in place, a message was scored as a wrong answer and
\* nothing but the quiz fields moved
C18_Witness ==
    /\ resp.kind = "incorrect"
    /\ state.waiting_for_quiz_yes_no
    /\ state.total_answered = 1
    /\ Len(students) = 2
    /\ attendance = <<>>
    /\ feedback = <<>>
    /\ steps = 3

(***************************************************************************)
(* C19.  Whenever current_question is set it is a (question, answer) pair  *)
(* of the bank whose question text is not in asked_questions; so           *)
(* asked_questions never holds one question text twice.                    *)
(* pick_unused_question returns None exactly when every bank question is   *)
(* in asked_questions.                                                     *)
(***************************************************************************)
C19_CurrentQuestionUnused ==
    /\ state.current_question # None =>
          /\ \E i \in 1..Len(quiz_questions) :
                /\ quiz_questions[i][1] = state.current_question[1].q
                /\ quiz_questions[i][2] = state.current_question[1].a
          /\ ~InSeq(state.current_question[1].q, state.asked_questions)
    /\ \A i, j \in 1..Len(state.asked_questions) :
          state.asked_questions[i] = state.asked_questions[j] => i = j
    /\ (pick_unused_question(state) = {None}) <=> AllAsked
    /\ \A qa \in pick_unused_question(state) :
          qa # None => ~InSeq(qa[1][1], state.asked_questions)

\* the last question of the bank is current after eight were answered
C19_Witness ==
    /\ state.current_question # None
    /\ state.current_question[1].q = quiz_questions[Len(quiz_questions)][1]
    /\ Len(state.asked_questions) = Len(quiz_questions) - 1

(***************************************************************************)
(* C20.  In every state reached by messages handled one at a time, at most *)
(* one of the four modes is active: a current question, the yes/no gate,   *)
(* attendance capture, feedback capture.                                   *)
(***************************************************************************)
ActiveModes ==
    (IF state.current_question # None THEN {"question"} ELSE {})
        \cup (IF state.waiting_for_quiz_yes_no THEN {"gate"} ELSE {})
        \cup (IF state.is_taking_attendance THEN {"attendance"} ELSE {})
        \cup (IF state.awaiting_feedback THEN {"feedback"} ELSE {})

C20_AtMostOneMode == Cardinality(ActiveModes) <= 1

\* attendance capture entered after a quiz was played and ended
C20_Witness ==
    /\ ActiveModes = {"attendance"}
    /\ state.asked_questions # <<>>
    /\ steps = 2

(***************************************************************************)
(* C13.  Requests to /chat are handled one after the other, so that when   *)
(* two of them arrive together the session and the tables are those of a   *)
(* serial order.  Whenever no request is in flight, then, every answered   *)
(* question is counted once in total_answered and once in asked_questions  *)
(* (two answers sent together to one question count it once), and at most  *)
(* one mode is active.                                                     *)
(***************************************************************************)
Quiescent == \A t \in Threads : inflight[t].pc = "idle"

C13_SerialOutcome ==
    Quiescent =>
        /\ state.total_answered = Len(state.asked_questions)
        /\ \A i, j \in 1..Len(state.asked_questions) :
              state.asked_questions[i] = state.asked_questions[j] => i = j
        /\ Cardinality(ActiveModes) <= 1

(***************************************************************************)
(* C21.  In every state reached by requests handled one at a time,         *)
(* 0 <= score <= total_answered, and total_answered is the number of       *)
(* entries of asked_questions, hence at most the size of the bank; so      *)
(* when the quiz-start branch resets the score (asked_questions empty and  *)
(* total_answered 0) the score is 0 already.                               *)
(***************************************************************************)
C21_ScoreBounds ==
    /\ 0 <= state.score
    /\ state.score <= state.total_answered
    /\ state.total_answered = Len(state.asked_questions)
    /\ state.total_answered <= Len(quiz_questions)
    /\ (state.asked_questions = <<>> /\ state.total_answered = 0)
          => state.score = 0

\* the whole bank was answered, all but the last question right
C21_Witness ==
    /\ state.total_answered = Len(quiz_questions)
    /\ state.score = Len(quiz_questions) - 1
    /\ Len(state.asked_questions) = Len(quiz_questions)
    /\ resp.kind = "incorrect"

(***************************************************************************)
(* C22.  Each attendance capture replaces present_students: after it the   *)
(* list holds exactly the roster names matched by that capture's message,  *)
(* in roster order and once each, whatever it held before.  In every       *)
(* state present_students holds roster names only, without repeats, so a   *)
(* random-student request names a roster student of the latest capture.    *)
(***************************************************************************)
\* every entry is a roster name and no entry occurs twice
PresentWithinRoster(present, tbl) ==
    /\ \A i \in 1..Len(present) : \E k \in 1..Len(tbl) : tbl[k].name = present[i]
    /\ \A i, j \in 1..Len(present) : present[i] = present[j] => i = j

C22_PresentReplaced ==
    [][/\ PresentWithinRoster(state.present_students, students)
       /\ PresentWithinRoster(state'.present_students, students')
       /\ state.is_taking_attendance =>
             \A m \in Messages :
                 Handled(m)
                 => LET items   == ItemsOf(m)
                        names   == [i \in 1..Len(students) |-> students[i].name]
                        matched == SelectSeq(names, LAMBDA s : Lower(s) \in items)
                    IN  /\ state'.present_students = matched
                        /\ resp'.args[1] = Len(matched)
       /\ (NoModeActive /\ state.present_students # <<>>) =>
             \A m \in Messages :
                 (Lo(m) \in RandomStudentPhrases /\ Handled(m))
                 => /\ resp'.kind = "random_student"
                    /\ InSeq(resp'.args[1], state.present_students)
                    /\ \E k \in 1..Len(students) : students[k].name = resp'.args[1]
                    /\ state' = state
      ]_vars

\* Alice, present at the earlier capture, is dropped by a capture whose
\* message names nobody
C22_Witness ==
    /\ resp.kind = "attendance_complete"
    /\ state.present_students = <<>>
    /\ resp.args[2] = 2
    /\ Len(attendance) = 4

(***************************************************************************)
(* C23.  With requests handled one at a time, whenever                     *)
(* is_taking_attendance is true the roster is non-empty; so every          *)
(* attendance capture writes at least one attendance row, and its summary  *)
(* never reads "0 present, 0 absent".                                      *)
(***************************************************************************)
C23_CaptureHasRoster ==
    [][/\ state.is_taking_attendance => students # <<>>
       /\ state'.is_taking_attendance => students' # <<>>
       /\ state.is_taking_attendance =>
             \A m \in Messages :
                 Handled(m)
                 => /\ Len(attendance') >= Len(attendance) + 1
                    /\ resp'.kind = "attendance_complete"
                    /\ resp'.args[1] + resp'.args[2] >= 1
      ]_vars

\* everybody of a two-student roster was marked present
C23_Witness ==
    /\ resp.kind = "attendance_complete"
    /\ resp.args[1] = 2
    /\ resp.args[2] = 0
    /\ Len(attendance) = 2
    /\ Len(students) = 2

====
